---- MODULE Spec2Model ----
(***************************************************************************)
(* Model of arducam-apps: the ordered multi-worker encode pipeline         *)
(* (ArducamEncoder), the deinterleave transform (encodeArducam) and the    *)
(* capture control threads (capturing_control / event_loop / main).        *)
(*                                                                         *)
(* Three subsystems share this module.  Each has its own specification;    *)
(* a specification leaves the variables of the other subsystems at their   *)
(* parked initial values.                                                  *)
(*   Spec / FairSpec : the encode pipeline                                 *)
(*   TransformSpec   : encodeArducam on one frame                          *)
(*   CaptureSpec     : capturing_control and event_loop                    *)
(***************************************************************************)
EXTENDS Integers, Sequences, FiniteSets, TLC

(***************************************************************************)
(* Bounds of the model and program constants.                              *)
(***************************************************************************)
\* Number of frames the capture loop submits before the pipeline is closed.
MaxFrames == 3

\* Number of frames submitted in the behaviours checked under fairness.
MaxFairFrames == 2

\* arducam_encoder.hpp: static const int NUM_ENC_THREADS = 4;
NUM_ENC_THREADS == 4

Workers == 0 .. (NUM_ENC_THREADS - 1)

\* Value of a worker's / the reassembler's item slot when it holds no item.
NoItem == -1

\* Largest raw buffer geometry the transform is run on (the table's entries,
\* 1344x990 and 2032x1080, scaled down).
MaxFileWidth == 5
MaxFileHeight == 5

\* uint16_t samples
SampleMod == 65536

\* Most iterations the controller's loop runs: its counter starts at an
\* indeterminate value, taken from LoopEnd + 1 - MaxBursts .. LoopEnd + 1.
MaxBursts == 2

\* Most frames the camera completes in one burst before its deadline, and
\* most device timeouts it reports in one burst.
MaxBurstFrames == 2
MaxRestarts == 1

\* arducam_raw.cpp: for (int i = i; i <= 5; ++i)
LoopEnd == 5

\* arducam_raw.cpp: unsigned int base_exposure = 5000;
base_exposure == 5000

VARIABLES
    \* ---- ArducamEncoder fields ----
    index_,          \* uint64_t index_ : next sequence index to assign
    encode_queue_,   \* std::queue<EncodeItem> (sequence of indices)
    abortEncode_,    \* bool abortEncode_
    abortOutput_,    \* bool abortOutput_
    output_queue_,   \* std::queue<OutputItem> output_queue_[NUM_ENC_THREADS]
    \* ---- encodeThread(num) locals / position ----
    encPc,           \* worker -> "lock" | "wait" | "encode" | "done"
    encItem,         \* worker -> encode_item.index (NoItem before the first pop)
    \* ---- outputThread locals / position ----
    outPc,           \* "lock" | "wait" | "deliver" | "done"
    outItem,         \* item.index of the popped item (NoItem when none)
    outIndex,        \* local uint64_t index : next expected sequence index
    \* ---- the caller of the encoder (capture loop thread) ----
    dtorPc,          \* "live" | "join_enc" | "join_out" | "closed"
    \* ---- history (observations of the callbacks and of EncodeBuffer) ----
    assigned,        \* sequence of indices EncodeBuffer gave to its frames
    delivered,       \* sequence of item indices handed to output_ready_callback_
    returned,        \* sequence of item indices at each input_done_callback_ call
    unguarded,       \* shared plain fields written with no mutex held
    \* ---- encodeArducam on one frame ----
    resolution_key,  \* options->resolution_key
    current_res_,    \* ResolutionPairs: fileWidth, fileHeight, imageWidth, imageHeight
    rawSeed,         \* the raw frame: sample k of item.mem is RawAt(rawSeed, k)
    xfPc,            \* "off" | "begin" | "rows" | "end" | "done"
    xfRow,           \* loop counter i
    in_it,           \* input_band_1_it .. input_band_4_it (offsets in input_image)
    out_it,          \* out_band_1_it .. out_band_4_it (offsets in encoded_image)
    encoded_image,   \* std::vector<uint16_t> encoded_image
    encoded_buffer,  \* the malloc'ed result (empty until it is filled)
    buffer_len,      \* size_t buffer_len
    readHigh,        \* highest offset of input_image read by std::copy (-1: none)
    writeHigh,       \* highest offset of encoded_image written by std::copy
    writes,          \* offset of encoded_image -> times std::copy wrote it
    \* ---- main's locals shared by the two capture threads ----
    start,           \* bool start
    next,            \* bool next
    keep_capturing,  \* std::atomic<bool> keep_capturing
    start_mtx,       \* holder of start_mtx across a step: "free" | "loop"
    shutter,         \* options->shutter, in microseconds
    timeoutSet,      \* options->timeout is non-zero
    \* ---- capturing_control ----
    ctlPc,           \* "off" | "loop" | "signal" | "notify_start" | "next_check"
                     \* | "next_blocked" | "fin" | "fin_notify" | "done"
    ctl_i,           \* int i
    \* ---- event_loop ----
    loopPc,          \* "off" | "while" | "gate_lock" | "gate_preblock"
                     \* | "gate_blocked" | "gate_passed" | "open" | "start"
                     \* | "frames" | "sleep" | "notify_next" | "returned"
    first,           \* bool first
    frames,          \* frames passed to EncodeBuffer in the current burst
    restarts,        \* device timeouts handled in the current burst
    expired,         \* (now - start_time) > options->timeout.value
    \* ---- the camera / encoder collaborator, as the calls made on it ----
    openCount,       \* calls of OpenCamera
    configCount,     \* calls of ConfigureVideo
    encoderOn,       \* between StartEncoder and StopEncoder
    cameraOn,        \* between StartCamera and StopCamera
    bursts,          \* calls of StartEncoder
    armed,           \* the controller signalled start since the last burst ended
    \* ---- the message-driven controller and its capture loop ----
    gate_active,     \* Capture Gate {active}
    shutdown,        \* the overall shutdown flag
    pending_exposure, \* the pending exposure/shutter setting
    msgLog,          \* the messages handled: key and the gate found by each
    mcPc,            \* CaptureController: "off" | "run" | "closed"
    mlPc,            \* CaptureLoop: "off" | "wait" | "burst" | "returned"
    mFirst,          \* no activation seen yet
    mOpenCount,      \* camera-open calls
    mCameraOn,       \* the camera streams
    mBursts,         \* activations answered by the capture loop
    activations,     \* changes of the gate from inactive to active
    \* ---- the two mutexes of ArducamEncoder, where their holder is followed ----
    encode_mutex_,   \* std::mutex encode_mutex_ : the thread that holds it
    output_mutex_    \* std::mutex output_mutex_ : the thread that holds it

pipeVars == << index_, encode_queue_, abortEncode_, abortOutput_, output_queue_,
               encPc, encItem, outPc, outItem, outIndex, dtorPc,
               assigned, delivered, returned, unguarded >>

xfVars == << resolution_key, current_res_, rawSeed, xfPc, xfRow, in_it, out_it,
             encoded_image, encoded_buffer, buffer_len,
             readHigh, writeHigh, writes >>

capVars == << start, next, keep_capturing, start_mtx, shutter, timeoutSet,
              ctlPc, ctl_i, loopPc, first, frames, restarts, expired,
              openCount, configCount, encoderOn, cameraOn, bursts, armed >>

msgVars == << gate_active, shutdown, pending_exposure, msgLog, mcPc, mlPc,
              mFirst, mOpenCount, mCameraOn, mBursts, activations >>

lockVars == << encode_mutex_, output_mutex_ >>

vars == << pipeVars, xfVars, capVars, msgVars, lockVars >>

\* The threads of the encoder as holders of a mutex, and no holder.
NoThread == << "none", 0 >>
CallerThread == << "caller", 0 >>
OutputThread == << "output", 0 >>
EncodeThread(num) == << "encode", num >>

\* A specification whose steps are whole critical sections shows both
\* mutexes free in every state.
LockParked ==
    /\ encode_mutex_ = NoThread
    /\ output_mutex_ = NoThread

(***************************************************************************)
(* Parked values: a subsystem that a specification does not run.           *)
(***************************************************************************)
PipeParked ==
    /\ index_ = 0
    /\ encode_queue_ = << >>
    /\ abortEncode_ = FALSE
    /\ abortOutput_ = FALSE
    /\ output_queue_ = [w \in Workers |-> << >>]
    /\ encPc = [w \in Workers |-> "off"]
    /\ encItem = [w \in Workers |-> NoItem]
    /\ outPc = "off"
    /\ outItem = NoItem
    /\ outIndex = 0
    /\ dtorPc = "off"
    /\ assigned = << >>
    /\ delivered = << >>
    /\ returned = << >>
    /\ unguarded = {}

\* resolution_map_ : { label, { fileWidth, fileHeight, imageWidth, imageHeight } }
resolution_map_ ==
    [k \in {"LOW", "MEDIUM"} |->
        IF k = "LOW"
        THEN [fileWidth |-> 1344, fileHeight |-> 990,
              imageWidth |-> 1328, imageHeight |-> 990]
        ELSE [fileWidth |-> 2032, fileHeight |-> 1080,
              imageWidth |-> 2024, imageHeight |-> 1080]]

\* The labels options->resolution_key is given: the two of the table and one
\* that the table does not hold.
Labels == {"LOW", "MEDIUM", "HIGH"}

\* std::unique_ptr<ResolutionPairs> current_res_ before make_unique: nullptr
NullRes == [fileWidth |-> 0, fileHeight |-> 0, imageWidth |-> 0, imageHeight |-> 0]

\* The encoder built with a label of the table; no frame in the transform.
XfResolved ==
    /\ resolution_key = "MEDIUM"
    /\ current_res_ = resolution_map_[resolution_key]
    /\ rawSeed = 0
    /\ xfPc = "off"
    /\ xfRow = 0
    /\ in_it = << 0, 0, 0, 0 >>
    /\ out_it = << 0, 0, 0, 0 >>
    /\ encoded_image = << >>
    /\ encoded_buffer = << >>
    /\ buffer_len = 0
    /\ readHigh = -1
    /\ writeHigh = -1
    /\ writes = << >>

XfParked ==
    /\ resolution_key = ""
    /\ current_res_ = NullRes
    /\ rawSeed = 0
    /\ xfPc = "off"
    /\ xfRow = 0
    /\ in_it = << 0, 0, 0, 0 >>
    /\ out_it = << 0, 0, 0, 0 >>
    /\ encoded_image = << >>
    /\ encoded_buffer = << >>
    /\ buffer_len = 0
    /\ readHigh = -1
    /\ writeHigh = -1
    /\ writes = << >>

CapParked ==
    /\ start = FALSE
    /\ next = FALSE
    /\ keep_capturing = FALSE
    /\ start_mtx = "free"
    /\ shutter = 0
    /\ timeoutSet = FALSE
    /\ ctlPc = "off"
    /\ ctl_i = 0
    /\ loopPc = "off"
    /\ first = FALSE
    /\ frames = 0
    /\ restarts = 0
    /\ expired = FALSE
    /\ openCount = 0
    /\ configCount = 0
    /\ encoderOn = FALSE
    /\ cameraOn = FALSE
    /\ bursts = 0
    /\ armed = FALSE

MsgParked ==
    /\ gate_active = FALSE
    /\ shutdown = FALSE
    /\ pending_exposure = 0
    /\ msgLog = << >>
    /\ mcPc = "off"
    /\ mlPc = "off"
    /\ mFirst = FALSE
    /\ mOpenCount = 0
    /\ mCameraOn = FALSE
    /\ mBursts = 0
    /\ activations = 0

\* What a step of one subsystem leaves alone.
PipeOnly == UNCHANGED << xfVars, capVars, msgVars, lockVars >>
XfOnly == UNCHANGED << pipeVars, capVars, msgVars, lockVars >>
CapOnly == UNCHANGED << pipeVars, xfVars, msgVars, lockVars >>
MsgOnly == UNCHANGED << pipeVars, xfVars, capVars, lockVars >>
LockOnly == UNCHANGED << xfVars, capVars, msgVars >>

(***************************************************************************)
(* ArducamEncoder::ArducamEncoder : flags false, index_ 0, the output      *)
(* thread and the NUM_ENC_THREADS encode threads started.                  *)
(***************************************************************************)
PipeInit ==
    /\ index_ = 0
    /\ encode_queue_ = << >>
    /\ abortEncode_ = FALSE
    /\ abortOutput_ = FALSE
    /\ output_queue_ = [w \in Workers |-> << >>]
    /\ encPc = [w \in Workers |-> "lock"]
    /\ encItem = [w \in Workers |-> NoItem]
    /\ outPc = "lock"
    /\ outItem = NoItem
    /\ outIndex = 0
    /\ dtorPc = "live"
    /\ assigned = << >>
    /\ delivered = << >>
    /\ returned = << >>
    /\ unguarded = {}

(***************************************************************************)
(* Condition variables.  A thread blocked in wait_for is at "wait"; a      *)
(* notification moves it back to "lock" (it must re-acquire the mutex and  *)
(* re-evaluate its loop), and so does the 200ms timeout.                   *)
(***************************************************************************)
\* encode_cond_var_.notify_all()
NotifyAllEncode(pc) == [w \in Workers |-> IF pc[w] = "wait" THEN "lock" ELSE pc[w]]

\* output_cond_var_.notify_one() : the reassembler is the only waiter
NotifyOutput(pc) == IF pc = "wait" THEN "lock" ELSE pc

(***************************************************************************)
(* ArducamEncoder::EncodeBuffer, one critical section on encode_mutex_.    *)
(***************************************************************************)
\* Mutant of NextIndex: the counter is not advanced.
NextIndex_Mut(i) == i

\* index_++ : the counter after the item took its value
NextIndex(i) == i + 1

EncodeBuffer ==
    /\ dtorPc = "live"
    /\ index_ < MaxFrames
    /\ encode_queue_' = Append(encode_queue_, index_)
    /\ assigned' = Append(assigned, index_)
    /\ index_' = NextIndex(index_)
    /\ encPc' = NotifyAllEncode(encPc)
    /\ UNCHANGED << abortEncode_, abortOutput_, output_queue_, encItem,
                    outPc, outItem, outIndex, dtorPc, delivered >>
    /\ UNCHANGED << returned, unguarded >>
    /\ PipeOnly

(***************************************************************************)
(* ArducamEncoder::encodeThread(num)                                       *)
(***************************************************************************)
\* Mutant of EncExit: the worker leaves on the flag alone.
EncExit_Mut(abort, queue) == abort

\* if (abortEncode_ && encode_queue_.empty()) return;
EncExit(abort, queue) == abort /\ queue = << >>

\* Mutant of Popped: the front item is read and left in the queue.
Popped_Mut(queue) == queue

\* encode_queue_.pop()
Popped(queue) == Tail(queue)

\* One pass of the inner while(true) with encode_mutex_ held.
EncCheck(w) ==
    /\ encPc[w] = "lock"
    /\ IF EncExit(abortEncode_, encode_queue_)
       THEN /\ encPc' = [encPc EXCEPT ![w] = "done"]
            /\ UNCHANGED << encode_queue_, encItem >>
       ELSE IF encode_queue_ # << >>
       THEN /\ encItem' = [encItem EXCEPT ![w] = Head(encode_queue_)]
            /\ encode_queue_' = Popped(encode_queue_)
            /\ encPc' = [encPc EXCEPT ![w] = "encode"]
       ELSE /\ encPc' = [encPc EXCEPT ![w] = "wait"]
            /\ UNCHANGED << encode_queue_, encItem >>
    /\ UNCHANGED << index_, abortEncode_, abortOutput_, output_queue_,
                    outPc, outItem, outIndex, dtorPc, assigned, delivered >>
    /\ UNCHANGED << returned, unguarded >>
    /\ PipeOnly

\* Mutant of EncTimeout: the wait has no timeout.
EncTimeout_Mut(w) == FALSE

\* encode_cond_var_.wait_for(lock, 200ms) returns by timeout.
EncTimeout(w) ==
    /\ encPc[w] = "wait"
    /\ encPc' = [encPc EXCEPT ![w] = "lock"]
    /\ UNCHANGED << index_, encode_queue_, abortEncode_, abortOutput_,
                    output_queue_, encItem, outPc, outItem, outIndex, dtorPc,
                    assigned, delivered >>
    /\ UNCHANGED << returned, unguarded >>
    /\ PipeOnly

\* OutputItem output_item = { encoded_buffer, buffer_len, timestamp_us, index }
OutputItemOf(item) == item

\* Mutant of OwnQueue: every worker pushes on the first queue.
OwnQueue_Mut(num) == 0

\* output_queue_[num] : the queue of the worker itself
OwnQueue(num) == num

\* encodeArducam (it reads its sizes through current_res_), then the push on
\* this worker's own queue under output_mutex_.
EncPush(w) ==
    /\ encPc[w] = "encode"
    /\ current_res_ # NullRes
    /\ output_queue_' = [output_queue_ EXCEPT
                            ![OwnQueue(w)] = Append(@, OutputItemOf(encItem[w]))]
    /\ outPc' = NotifyOutput(outPc)
    /\ encPc' = [encPc EXCEPT ![w] = "lock"]
    /\ UNCHANGED << index_, encode_queue_, abortEncode_, abortOutput_, encItem,
                    outItem, outIndex, dtorPc, assigned, delivered >>
    /\ UNCHANGED << returned, unguarded >>
    /\ PipeOnly

(***************************************************************************)
(* ArducamEncoder::outputThread                                            *)
(***************************************************************************)
\* if (abort && !q.empty()) abort = false;
ScanAbort(abort, nonEmpty) == abort /\ ~nonEmpty

\* Mutant of IsWanted: the front of the first non-empty queue is taken.
IsWanted_Mut(item, idx) == TRUE

\* q.front().index == index
IsWanted(item, idx) == item = idx

\* for (auto &q : output_queue_) { ... } with output_mutex_ held, from queue q on.
RECURSIVE Scan(_, _, _, _)
Scan(q, abort, queues, idx) ==
    IF q = NUM_ENC_THREADS
    THEN [found |-> FALSE, q |-> 0, abort |-> abort]
    ELSE LET nonEmpty == queues[q] # << >>
             abort2   == ScanAbort(abort, nonEmpty)
         IN  IF nonEmpty /\ IsWanted(Head(queues[q]), idx)
             THEN [found |-> TRUE, q |-> q, abort |-> abort2]
             ELSE Scan(q + 1, abort2, queues, idx)

\* Mutant of OutCheck: the abort flag is tested before the queues are scanned.
OutCheck_Mut ==
    /\ outPc = "lock"
    /\ LET r == Scan(0, abortOutput_, output_queue_, outIndex)
       IN  IF abortOutput_
           THEN /\ outPc' = "done"
                /\ UNCHANGED << outItem, output_queue_ >>
           ELSE IF r.found
           THEN /\ outItem' = Head(output_queue_[r.q])
                /\ output_queue_' = [output_queue_ EXCEPT ![r.q] = Tail(@)]
                /\ outPc' = "deliver"
           ELSE /\ outPc' = "wait"
                /\ UNCHANGED << outItem, output_queue_ >>
    /\ UNCHANGED << index_, encode_queue_, abortEncode_, abortOutput_,
                    encPc, encItem, outIndex, dtorPc, assigned, delivered >>
    /\ UNCHANGED << returned, unguarded >>
    /\ PipeOnly

\* One pass of the inner while(true) with output_mutex_ held.
OutCheck ==
    /\ outPc = "lock"
    /\ LET r == Scan(0, abortOutput_, output_queue_, outIndex)
       IN  IF r.found
           THEN /\ outItem' = Head(output_queue_[r.q])
                /\ output_queue_' = [output_queue_ EXCEPT ![r.q] = Tail(@)]
                /\ outPc' = "deliver"
           ELSE IF r.abort
           THEN /\ outPc' = "done"
                /\ UNCHANGED << outItem, output_queue_ >>
           ELSE /\ outPc' = "wait"
                /\ UNCHANGED << outItem, output_queue_ >>
    /\ UNCHANGED << index_, encode_queue_, abortEncode_, abortOutput_,
                    encPc, encItem, outIndex, dtorPc, assigned, delivered >>
    /\ UNCHANGED << returned, unguarded >>
    /\ PipeOnly

\* output_cond_var_.wait_for(lock, 200ms) returns by timeout.
OutTimeout ==
    /\ outPc = "wait"
    /\ outPc' = "lock"
    /\ UNCHANGED << index_, encode_queue_, abortEncode_, abortOutput_,
                    output_queue_, encPc, encItem, outItem, outIndex, dtorPc,
                    assigned, delivered >>
    /\ UNCHANGED << returned, unguarded >>
    /\ PipeOnly

\* Mutant of OutDeliver: input_done_callback_ is not called.
OutDeliver_Mut ==
    /\ outPc = "deliver"
    /\ delivered' = Append(delivered, outItem)
    /\ outIndex' = outIndex + 1
    /\ outPc' = "lock"
    /\ UNCHANGED << index_, encode_queue_, abortEncode_, abortOutput_,
                    output_queue_, encPc, encItem, outItem, dtorPc, assigned >>
    /\ UNCHANGED << returned, unguarded >>
    /\ PipeOnly

\* got_item: input_done_callback_, output_ready_callback_, free, index++
OutDeliver ==
    /\ outPc = "deliver"
    /\ returned' = Append(returned, outItem)
    /\ delivered' = Append(delivered, outItem)
    /\ outIndex' = outIndex + 1
    /\ outPc' = "lock"
    /\ UNCHANGED << index_, encode_queue_, abortEncode_, abortOutput_,
                    output_queue_, encPc, encItem, outItem, dtorPc, assigned >>
    /\ UNCHANGED unguarded
    /\ PipeOnly

(***************************************************************************)
(* ArducamEncoder::~ArducamEncoder, run by the thread that called          *)
(* EncodeBuffer (the capture loop, through StopEncoder).                   *)
(***************************************************************************)
\* abortEncode_ = true;  (a plain bool, written with encode_mutex_ not held)
DtorAbortEncode ==
    /\ dtorPc = "live"
    /\ abortEncode_' = TRUE
    /\ dtorPc' = "join_enc"
    /\ UNCHANGED << index_, encode_queue_, abortOutput_, output_queue_, encPc,
                    encItem, outPc, outItem, outIndex, assigned, delivered >>
    /\ unguarded' = unguarded \cup {"abortEncode_"}
    /\ UNCHANGED returned
    /\ PipeOnly

\* Mutant of DtorJoinEncode: abortOutput_ is raised without joining the workers.
DtorJoinEncode_Mut ==
    /\ dtorPc = "join_enc"
    /\ abortOutput_' = TRUE
    /\ dtorPc' = "join_out"
    /\ UNCHANGED << index_, encode_queue_, abortEncode_, output_queue_, encPc,
                    encItem, outPc, outItem, outIndex, assigned, delivered >>
    /\ unguarded' = unguarded \cup {"abortOutput_"}
    /\ UNCHANGED returned
    /\ PipeOnly

\* encode_thread_[i].join() for every i, then abortOutput_ = true;
\* (a plain bool, written with output_mutex_ not held)
DtorJoinEncode ==
    /\ dtorPc = "join_enc"
    /\ \A w \in Workers : encPc[w] = "done"
    /\ abortOutput_' = TRUE
    /\ dtorPc' = "join_out"
    /\ UNCHANGED << index_, encode_queue_, abortEncode_, output_queue_, encPc,
                    encItem, outPc, outItem, outIndex, assigned, delivered >>
    /\ unguarded' = unguarded \cup {"abortOutput_"}
    /\ UNCHANGED returned
    /\ PipeOnly

\* output_thread_.join();
DtorJoinOutput ==
    /\ dtorPc = "join_out"
    /\ outPc = "done"
    /\ dtorPc' = "closed"
    /\ UNCHANGED << index_, encode_queue_, abortEncode_, abortOutput_,
                    output_queue_, encPc, encItem, outPc, outItem, outIndex,
                    assigned, delivered >>
    /\ UNCHANGED << returned, unguarded >>
    /\ PipeOnly

(***************************************************************************)
(* The encode pipeline.                                                    *)
(***************************************************************************)
Init == PipeInit /\ XfResolved /\ CapParked /\ MsgParked /\ LockParked

WorkerStep == \E w \in Workers : EncCheck(w) \/ EncTimeout(w) \/ EncPush(w)

OutputStep == OutCheck \/ OutTimeout \/ OutDeliver

DtorStep == DtorAbortEncode \/ DtorJoinEncode \/ DtorJoinOutput

Next == EncodeBuffer \/ WorkerStep \/ OutputStep \/ DtorStep

Spec == Init /\ [][Next]_vars

(***************************************************************************)
(* Fair scheduling of the pipeline threads.  Every worker and the          *)
(* reassembler are OS threads that keep running; their waits are bounded   *)
(* (wait_for 200ms), so a waiting thread always comes back to its check.   *)
(* The destructor, once entered, runs to its end.  Nothing forces the      *)
(* caller to submit a frame or to enter the destructor.                    *)
(***************************************************************************)
\* The caller submits at most MaxFairFrames frames in the fair behaviours.
EncodeBufferFair == index_ < MaxFairFrames /\ EncodeBuffer

FairNext == EncodeBufferFair \/ WorkerStep \/ OutputStep \/ DtorStep

FairSpec ==
    /\ Init
    /\ [][FairNext]_vars
    /\ \A w \in Workers : WF_vars(EncCheck(w) \/ EncTimeout(w) \/ EncPush(w))
    /\ WF_vars(OutputStep)
    /\ WF_vars(DtorJoinEncode \/ DtorJoinOutput)

(***************************************************************************)
(* Construction of the encoder.  Before the constructor runs no thread     *)
(* exists; the constructor looks the label up and starts the threads.      *)
(***************************************************************************)
\* if (resolution_map_.find(key) != resolution_map_.end()) current_res_ = ...
Resolve(key) == IF key \in DOMAIN resolution_map_ THEN resolution_map_[key] ELSE NullRes

\* ArducamEncoder::ArducamEncoder
Construct ==
    /\ dtorPc = "off"
    /\ current_res_' = Resolve(resolution_key)
    /\ outPc' = "lock"
    /\ encPc' = [w \in Workers |-> "lock"]
    /\ dtorPc' = "live"
    /\ UNCHANGED << index_, encode_queue_, abortEncode_, abortOutput_,
                    output_queue_, encItem, outItem, outIndex, assigned,
                    delivered, returned, unguarded >>
    /\ UNCHANGED << resolution_key, rawSeed, xfPc, xfRow, in_it, out_it,
                    encoded_image, encoded_buffer, buffer_len,
                    readHigh, writeHigh, writes >>
    /\ UNCHANGED << capVars, msgVars, lockVars >>

\* encodeArducam with current_res_ == nullptr: current_res_->imageWidth is a
\* null dereference.  The process is killed, or the worker goes on with
\* whatever sizes it read and pushes its item.
EncNullDeref(w) ==
    /\ encPc[w] = "encode"
    /\ current_res_ = NullRes
    /\ \/ /\ encPc' = [v \in Workers |-> "killed"]
          /\ outPc' = "killed"
          /\ dtorPc' = "killed"
          /\ UNCHANGED output_queue_
       \/ /\ output_queue_' = [output_queue_ EXCEPT
                                  ![w] = Append(@, OutputItemOf(encItem[w]))]
          /\ outPc' = NotifyOutput(outPc)
          /\ encPc' = [encPc EXCEPT ![w] = "lock"]
          /\ UNCHANGED dtorPc
    /\ UNCHANGED << index_, encode_queue_, abortEncode_, abortOutput_, encItem,
                    outItem, outIndex, assigned, delivered, returned, unguarded >>
    /\ PipeOnly

\* Before construction: the label is whatever the command line gave.
ConstructInit ==
    /\ PipeParked
    /\ resolution_key \in Labels
    /\ current_res_ = NullRes
    /\ rawSeed = 0
    /\ xfPc = "off"
    /\ xfRow = 0
    /\ in_it = << 0, 0, 0, 0 >>
    /\ out_it = << 0, 0, 0, 0 >>
    /\ encoded_image = << >>
    /\ encoded_buffer = << >>
    /\ buffer_len = 0
    /\ readHigh = -1
    /\ writeHigh = -1
    /\ writes = << >>
    /\ CapParked
    /\ MsgParked
    /\ LockParked

ConstructNext == Construct \/ (\E w \in Workers : EncNullDeref(w)) \/ FairNext

ConstructSpec == ConstructInit /\ [][ConstructNext]_vars

(***************************************************************************)
(* The encode pipeline with the acquisition of a mutex as a step of its    *)
(* own.  A thread at "lock" is about to acquire the mutex of its loop; at  *)
(* "locked" it holds it; a worker at "encode" is about to acquire          *)
(* output_mutex_ and at "push" holds it; the caller at "submit" holds      *)
(* encode_mutex_.  What is done under the mutex and its release are one    *)
(* step.                                                                   *)
(***************************************************************************)
\* Frames submitted when the mutexes are followed.
MaxLockFrames == 2

\* EncodeBuffer: std::lock_guard<std::mutex> lock(encode_mutex_);
LkSubmitAcquire ==
    /\ dtorPc = "live"
    /\ index_ < MaxLockFrames
    /\ encode_mutex_ = NoThread
    /\ encode_mutex_' = CallerThread
    /\ dtorPc' = "submit"
    /\ UNCHANGED << index_, encode_queue_, abortEncode_, abortOutput_,
                    output_queue_, encPc, encItem, outPc, outItem, outIndex,
                    assigned, delivered, returned, unguarded, output_mutex_ >>
    /\ LockOnly

\* EncodeBuffer: the push, the notification and the end of the lock_guard
LkSubmit ==
    /\ dtorPc = "submit"
    /\ encode_queue_' = Append(encode_queue_, index_)
    /\ assigned' = Append(assigned, index_)
    /\ index_' = NextIndex(index_)
    /\ encPc' = NotifyAllEncode(encPc)
    /\ encode_mutex_' = NoThread
    /\ dtorPc' = "live"
    /\ UNCHANGED << abortEncode_, abortOutput_, output_queue_, encItem, outPc,
                    outItem, outIndex, delivered, returned, unguarded,
                    output_mutex_ >>
    /\ LockOnly

\* encodeThread: std::unique_lock<std::mutex> lock(encode_mutex_), and the
\* re-acquisition that ends wait_for
LkEncAcquire(w) ==
    /\ encPc[w] = "lock"
    /\ encode_mutex_ = NoThread
    /\ encode_mutex_' = EncodeThread(w)
    /\ encPc' = [encPc EXCEPT ![w] = "locked"]
    /\ UNCHANGED << index_, encode_queue_, abortEncode_, abortOutput_,
                    output_queue_, encItem, outPc, outItem, outIndex, dtorPc,
                    assigned, delivered, returned, unguarded, output_mutex_ >>
    /\ LockOnly

\* Mutant of ReleasedAtBlockEnd: the lock outlives the inner block.
ReleasedAtBlockEnd_Mut(holder) == holder

\* The closing brace of the block of lines 259-283 destroys the unique_lock.
ReleasedAtBlockEnd(holder) == NoThread

\* encodeThread: one pass of the inner while(true); return and break
\* destroy the lock, wait_for releases the mutex.
LkEncCheck(w) ==
    /\ encPc[w] = "locked"
    /\ IF EncExit(abortEncode_, encode_queue_)
       THEN /\ encPc' = [encPc EXCEPT ![w] = "done"]
            /\ encode_mutex_' = NoThread
            /\ UNCHANGED << encode_queue_, encItem >>
       ELSE IF encode_queue_ # << >>
       THEN /\ encItem' = [encItem EXCEPT ![w] = Head(encode_queue_)]
            /\ encode_queue_' = Popped(encode_queue_)
            /\ encPc' = [encPc EXCEPT ![w] = "encode"]
            /\ encode_mutex_' = ReleasedAtBlockEnd(encode_mutex_)
       ELSE /\ encPc' = [encPc EXCEPT ![w] = "wait"]
            /\ encode_mutex_' = NoThread
            /\ UNCHANGED << encode_queue_, encItem >>
    /\ UNCHANGED << index_, abortEncode_, abortOutput_, output_queue_, outPc,
                    outItem, outIndex, dtorPc, assigned, delivered, returned,
                    unguarded, output_mutex_ >>
    /\ LockOnly

\* encodeThread: encodeArducam, then std::lock_guard lock(output_mutex_)
LkPushAcquire(w) ==
    /\ encPc[w] = "encode"
    /\ current_res_ # NullRes
    /\ output_mutex_ = NoThread
    /\ output_mutex_' = EncodeThread(w)
    /\ encPc' = [encPc EXCEPT ![w] = "push"]
    /\ UNCHANGED << index_, encode_queue_, abortEncode_, abortOutput_,
                    output_queue_, encItem, outPc, outItem, outIndex, dtorPc,
                    assigned, delivered, returned, unguarded, encode_mutex_ >>
    /\ LockOnly

\* encodeThread: the push, the notification and the end of the lock_guard
LkPush(w) ==
    /\ encPc[w] = "push"
    /\ output_queue_' = [output_queue_ EXCEPT
                            ![OwnQueue(w)] = Append(@, OutputItemOf(encItem[w]))]
    /\ outPc' = NotifyOutput(outPc)
    /\ encPc' = [encPc EXCEPT ![w] = "lock"]
    /\ output_mutex_' = NoThread
    /\ UNCHANGED << index_, encode_queue_, abortEncode_, abortOutput_, encItem,
                    outItem, outIndex, dtorPc, assigned, delivered, returned,
                    unguarded, encode_mutex_ >>
    /\ LockOnly

\* outputThread: std::unique_lock<std::mutex> lock(output_mutex_), and the
\* re-acquisition that ends wait_for
LkOutAcquire ==
    /\ outPc = "lock"
    /\ output_mutex_ = NoThread
    /\ output_mutex_' = OutputThread
    /\ outPc' = "locked"
    /\ UNCHANGED << index_, encode_queue_, abortEncode_, abortOutput_,
                    output_queue_, encPc, encItem, outItem, outIndex, dtorPc,
                    assigned, delivered, returned, unguarded, encode_mutex_ >>
    /\ LockOnly

\* outputThread: one pass of the inner while(true); goto got_item and
\* return leave the block of the lock, wait_for releases the mutex.
LkOutCheck ==
    /\ outPc = "locked"
    /\ LET r == Scan(0, abortOutput_, output_queue_, outIndex)
       IN  IF r.found
           THEN /\ outItem' = Head(output_queue_[r.q])
                /\ output_queue_' = [output_queue_ EXCEPT ![r.q] = Tail(@)]
                /\ outPc' = "deliver"
           ELSE IF r.abort
           THEN /\ outPc' = "done"
                /\ UNCHANGED << outItem, output_queue_ >>
           ELSE /\ outPc' = "wait"
                /\ UNCHANGED << outItem, output_queue_ >>
    /\ output_mutex_' = NoThread
    /\ UNCHANGED << index_, encode_queue_, abortEncode_, abortOutput_, encPc,
                    encItem, outIndex, dtorPc, assigned, delivered, returned,
                    unguarded, encode_mutex_ >>
    /\ LockOnly

LockWorkerStep ==
    \E w \in Workers :
        \/ LkEncAcquire(w) \/ LkEncCheck(w) \/ EncTimeout(w)
        \/ LkPushAcquire(w) \/ LkPush(w)

LockOutputStep == LkOutAcquire \/ LkOutCheck \/ OutTimeout \/ OutDeliver

LockNext ==
    \/ LkSubmitAcquire \/ LkSubmit
    \/ LockWorkerStep \/ LockOutputStep \/ DtorStep

LockSpec == Init /\ [][LockNext]_vars

(***************************************************************************)
(* Claims about the encode pipeline.                                       *)
(***************************************************************************)
\* The sequence 0, 1, ..., n-1
IsCount(s) == \A k \in 1 .. Len(s) : s[k] = k - 1

\* C1 Order preservation: the k-th item handed to the sink callback carries
\* sequence index k (counting from 0): the delivered sequence is 0,1,2,...
\* with no gap and no duplicate, whatever the interleaving of the workers.
C1_OrderPreserved == IsCount(delivered)

\* C1 witness: an item has been delivered while a later frame (not the next
\* expected one) already waits at the front of a worker queue: the workers
\* completed out of submission order.
C1_Witness ==
    /\ Len(delivered) >= 1
    /\ \E w \in Workers : /\ output_queue_[w] # << >>
                           /\ Head(output_queue_[w]) > outIndex

\* C2 Shutdown completeness: whenever the output thread has terminated, as
\* many items were delivered as frames were submitted; and once the
\* destructor has been entered the output thread eventually terminates.
C2_ShutdownComplete ==
    /\ [](outPc = "done" => Len(delivered) = index_)
    /\ ((dtorPc # "live") ~> (outPc = "done"))

\* C2 witness: the pipeline is closed after at least two submitted frames,
\* all of them delivered.
C2_Witness ==
    /\ dtorPc = "closed"
    /\ index_ >= 2
    /\ Len(delivered) = index_

\* C8 Sequence index assignment: after k calls of EncodeBuffer the indices
\* given to the frames are exactly 0..k-1 in call order (no reuse) and the
\* counter index_ equals k.
C8_IndexAssignment == IsCount(assigned) /\ index_ = Len(assigned)

\* C8 witness: several frames have been submitted.
C8_Witness == Len(assigned) >= 2 /\ index_ = Len(assigned)

\* C9 The output thread has returned only with the output abort flag set and
\* every worker output queue empty.
C9_OutputExit ==
    outPc = "done" => /\ abortOutput_
                      /\ \A w \in Workers : output_queue_[w] = << >>

\* C9 witness: the output thread has returned after delivering items.
C9_Witness == outPc = "done" /\ Len(delivered) >= 2

\* The sequence indices that have left the workers: in a worker output
\* queue, held by the reassembler, or delivered.
Encoded ==
    UNION { { output_queue_[w][k] : k \in 1 .. Len(output_queue_[w]) } : w \in Workers }
        \cup { delivered[k] : k \in 1 .. Len(delivered) }
        \cup (IF outPc = "deliver" THEN { outItem } ELSE { })

\* C10 Input-side drain: a worker that has exited did so with the input
\* abort flag set and the input queue empty; and once every worker has
\* exited, every submitted frame has been appended to a worker output queue.
C10_InputDrain ==
    /\ \A w \in Workers :
          encPc[w] = "done" => abortEncode_ /\ encode_queue_ = << >>
    /\ (\A w \in Workers : encPc[w] = "done") => Encoded = 0 .. (index_ - 1)

\* C10 witness: every worker has exited and frames that were submitted
\* before the abort were encoded.
C10_Witness ==
    /\ \A w \in Workers : encPc[w] = "done"
    /\ index_ >= 2
    /\ Encoded = 0 .. (index_ - 1)

\* C18 Frame-return notifications: the reassembler's counter moves only in
\* the step that follows a pop, by one, and that step calls
\* input_done_callback_ once and output_ready_callback_ once for the popped
\* item and goes straight back to the scan; so the notifications and the
\* deliveries are the same sequence, its k-th element is the k-th frame
\* given to EncodeBuffer, and a notified frame is neither waiting in the
\* encode queue nor being encoded.
C18_FrameReturn ==
    /\ [](/\ returned = delivered
          /\ Len(returned) = outIndex
          /\ returned = SubSeq(assigned, 1, Len(returned))
          /\ \A k \in DOMAIN returned :
                /\ \A j \in DOMAIN encode_queue_ : encode_queue_[j] # returned[k]
                /\ \A w \in Workers :
                      encPc[w] = "encode" => encItem[w] # returned[k])
    /\ [][(outIndex' # outIndex \/ (outPc = "deliver" /\ outPc' # outPc)) =>
             /\ outPc = "deliver"
             /\ outItem = outIndex
             /\ outIndex' = outIndex + 1
             /\ returned' = Append(returned, outItem)
             /\ delivered' = Append(delivered, outItem)
             /\ outPc' = "lock"]_vars

\* C18 witness: two frames have been notified and delivered, a third is
\* queued for the reassembler, which is about to scan again.
C18_Witness ==
    /\ Len(returned) = 2
    /\ outPc = "lock"
    /\ \E w \in Workers : output_queue_[w] # << >>

\* C19 Eventual delivery without shutdown: with the workers and the
\* reassembler scheduled fairly, whether or not the destructor is ever
\* entered, every frame given to EncodeBuffer is eventually handed to
\* output_ready_callback_, and no worker and no reassembler stays in its
\* wait for ever (its wait_for returns, notified or not).  index_ and the
\* deliveries never decrease, so "frame k is delivered some time after it
\* was submitted" is "again and again, frame k is delivered or not yet
\* submitted".
C19_EventualDelivery ==
    /\ \A k \in 0 .. (MaxFairFrames - 1) :
          []<>(index_ <= k \/ Len(delivered) > k)
    /\ \A w \in Workers : []<>(encPc[w] # "wait")
    /\ []<>(outPc # "wait")

\* C19 witness: every frame of the run has been delivered and no abort flag
\* has been set.
C19_Witness ==
    /\ index_ = MaxFairFrames
    /\ Len(delivered) = index_
    /\ dtorPc = "live"
    /\ ~abortEncode_ /\ ~abortOutput_

\* C20 Per-worker queue ordering: every output queue holds its items in
\* strictly increasing index order and holds no index below the
\* reassembler's counter; and when the index the reassembler expects is in
\* the queues, it is the front of exactly one of them.
C20_QueueOrdering ==
    /\ \A w \in Workers :
          /\ \A i, j \in DOMAIN output_queue_[w] :
                i < j => output_queue_[w][i] < output_queue_[w][j]
          /\ \A i \in DOMAIN output_queue_[w] : output_queue_[w][i] >= outIndex
    /\ (\E w \in Workers : \E i \in DOMAIN output_queue_[w] :
            output_queue_[w][i] = outIndex)
          => Cardinality({ w \in Workers :
                              /\ output_queue_[w] # << >>
                              /\ Head(output_queue_[w]) = outIndex }) = 1

\* C20 witness: one worker has two encoded items waiting in its queue, the
\* first of them the one the reassembler expects, after a first delivery.
C20_Witness ==
    /\ outIndex >= 1
    /\ \E w \in Workers :
          /\ Len(output_queue_[w]) >= 2
          /\ Head(output_queue_[w]) = outIndex

\* How many times index k occurs in a queue.
Occurrences(q, k) == Cardinality({ i \in DOMAIN q : q[i] = k })

\* The queues, the workers that transform and the sink, as holders of k.
InEncodeQueue(k) == Occurrences(encode_queue_, k)
InWorkers(k) == Cardinality({ w \in Workers : encPc[w] = "encode" /\ encItem[w] = k })
InOutputQueues(k) ==
    Cardinality({ << w, i >> \in Workers \X (1 .. index_) :
                     i \in DOMAIN output_queue_[w] /\ output_queue_[w][i] = k })
InSink(k) == Occurrences(delivered, k)
\* the item the output thread popped and has not handed over yet
InReassembler(k) == IF outPc = "deliver" /\ outItem = k THEN 1 ELSE 0

\* C21 as stated: every assigned index is in exactly one of four places -
\* the encode queue, one transforming worker, one output queue, the sink -
\* and the reassembler's counter is the number of delivered items.
C21_FourPlaces ==
    /\ \A k \in 0 .. (index_ - 1) :
          InEncodeQueue(k) + InWorkers(k) + InOutputQueues(k) + InSink(k) = 1
    /\ outIndex = Len(delivered)

\* C21 amended: every assigned index is in exactly one of five places - the
\* four above, or the output thread's local item between its pop from an
\* output queue and the call of output_ready_callback_ - and the
\* reassembler's counter is the number of delivered items.
C21_Conservation ==
    /\ \A k \in 0 .. (index_ - 1) :
          InEncodeQueue(k) + InWorkers(k) + InOutputQueues(k) + InSink(k)
              + InReassembler(k) = 1
    /\ outIndex = Len(delivered)

\* C21 witness: one frame is delivered, one is in the output thread's hands
\* and one is being transformed.
C21_Witness ==
    /\ index_ >= 3
    /\ Len(delivered) = 1
    /\ outPc = "deliver"
    /\ \E w \in Workers : encPc[w] = "encode"

\* The step by which the holder of a mutex gives it back.
EncodeHolderStep ==
    \/ encode_mutex_ = CallerThread /\ LkSubmit
    \/ \E w \in Workers : encode_mutex_ = EncodeThread(w) /\ LkEncCheck(w)

OutputHolderStep ==
    \/ output_mutex_ = OutputThread /\ LkOutCheck
    \/ \E w \in Workers : output_mutex_ = EncodeThread(w) /\ LkPush(w)

\* C23 Lock-order safety: no thread holds encode_mutex_ and output_mutex_
\* together; the output thread holds neither while it runs its callbacks;
\* the holder of a mutex can always take the step that gives it back, so
\* no thread waits for a mutex for ever; and during a delivery a worker
\* that has encoded its item can take output_mutex_ as soon as it is free.
C23_LockOrder ==
    /\ ~(encode_mutex_ # NoThread /\ encode_mutex_ = output_mutex_)
    /\ outPc = "deliver" =>
          (encode_mutex_ # OutputThread /\ output_mutex_ # OutputThread)
    /\ encode_mutex_ # NoThread => ENABLED EncodeHolderStep
    /\ output_mutex_ # NoThread => ENABLED OutputHolderStep
    /\ \A w \in Workers :
          (outPc = "deliver" /\ encPc[w] = "encode" /\ output_mutex_ = NoThread)
              => ENABLED LkPushAcquire(w)

\* C23 witness: during a delivery one worker holds output_mutex_ to append
\* its result and another thread holds encode_mutex_.
C23_Witness ==
    /\ outPc = "deliver"
    /\ \E w \in Workers : output_mutex_ = EncodeThread(w) /\ encPc[w] = "push"
    /\ encode_mutex_ # NoThread

\* C13 Mutex discipline: no field shared between the threads is read or
\* written outside the mutex that guards it, unless it is an atomic: the set
\* of plain shared fields accessed with no mutex held stays empty.
C13_MutexDiscipline == unguarded = {}

\* C11: a label that has no entry in the resolution table makes construction
\* fail: no encode thread and no output thread is ever started, and no frame
\* ever reaches the transform.
C11_FatalStartup ==
    (resolution_key \notin DOMAIN resolution_map_) =>
        /\ \A w \in Workers : encPc[w] = "off"
        /\ outPc = "off"
        /\ Encoded = {}

(***************************************************************************)
(* ArducamEncoder::encodeArducam on one frame.                             *)
(*                                                                         *)
(* Vectors are sequences; an iterator is its offset from begin(), so the   *)
(* element under iterator k is element k + 1 of the sequence.              *)
(***************************************************************************)
\* The resolved entries: like the two entries of resolution_map_, the image
\* is not larger than the raw buffer and has at least one sample per band.
ResolutionEntries ==
    { [fileWidth |-> fw, fileHeight |-> fh, imageWidth |-> iw, imageHeight |-> ih] :
        fw \in 2 .. MaxFileWidth, fh \in 2 .. MaxFileHeight,
        iw \in 2 .. MaxFileWidth, ih \in 2 .. MaxFileHeight }

ValidEntries ==
    { e \in ResolutionEntries :
        e.imageWidth <= e.fileWidth /\ e.imageHeight <= e.fileHeight }

\* The raw frames: every sample carries a marker of its position, so that two
\* different positions of one frame never hold the same value.
RawSeeds == { 0, SampleMod - 7 }

\* reinterpret_cast<uint16_t*>(item.mem)[k]
RawAt(seed, k) == (seed + k) % SampleMod

\* current_res_->imageWidth/2 and imageHeight/2 (unsigned division)
BandWidth(res) == res.imageWidth \div 2
BandHeight(res) == res.imageHeight \div 2

XfInit ==
    /\ resolution_key = ""
    /\ current_res_ \in ValidEntries
    /\ rawSeed \in RawSeeds
    /\ xfPc = "begin"
    /\ xfRow = 0
    /\ in_it = << 0, 0, 0, 0 >>
    /\ out_it = << 0, 0, 0, 0 >>
    /\ encoded_image = << >>
    /\ encoded_buffer = << >>
    /\ buffer_len = 0
    /\ readHigh = -1
    /\ writeHigh = -1
    /\ writes = << >>

\* The four input iterators: begin(), begin() + band_width,
\* begin() + band_height*fileWidth, begin() + band_height*fileWidth + band_width
InputBandStart(res) ==
    << 0,
       BandWidth(res),
       BandHeight(res) * res.fileWidth,
       BandHeight(res) * res.fileWidth + BandWidth(res) >>

\* Mutant of OutputBandStart: every output band starts one band too far.
OutputBandStart_Mut(res) ==
    [b \in 1 .. 4 |-> b * BandWidth(res) * BandHeight(res)]

\* The four output iterators: begin() + (b-1)*band_width*band_height
OutputBandStart(res) ==
    [b \in 1 .. 4 |-> (b - 1) * BandWidth(res) * BandHeight(res)]

\* Lines 213-230: the band sizes, the copy of the raw frame, the iterators
\* and the zero-filled encoded_image.
XfBegin ==
    /\ xfPc = "begin"
    /\ in_it' = InputBandStart(current_res_)
    /\ out_it' = OutputBandStart(current_res_)
    /\ encoded_image' =
         [k \in 1 .. (current_res_.imageWidth * current_res_.imageHeight) |-> 0]
    /\ writes' =
         [k \in 1 .. (current_res_.imageWidth * current_res_.imageHeight) |-> 0]
    /\ xfRow' = 0
    /\ xfPc' = "rows"
    /\ UNCHANGED << resolution_key, current_res_, rawSeed, encoded_buffer,
                    buffer_len, readHigh, writeHigh >>
    /\ XfOnly

\* std::copy(input_begin, input_end, output_begin) with
\* input_end = input_begin + band_width
CopyBand(image, seed, inIt, outIt, bandWidth) ==
    [k \in 1 .. Len(image) |->
        IF outIt < k /\ k <= outIt + bandWidth
        THEN RawAt(seed, inIt + (k - 1 - outIt))
        ELSE image[k]]

\* Mutant of AdvanceInput: the raw cursor moves by the band width.
AdvanceInput_Mut(it, file_width, band_width) == it + band_width

\* std::advance(input_begin, file_width)
AdvanceInput(it, file_width, band_width) == it + file_width

\* std::advance(output_begin, band_width)
AdvanceOutput(it, band_width) == it + band_width

\* The largest element of a finite set of integers.
HighestOf(S) == CHOOSE x \in S : \A y \in S : y <= x

\* One iteration of the row loop: copyBandColumn on band 1, 2, 3, 4.
RECURSIVE CopyBands(_, _, _, _, _, _)
CopyBands(b, image, seed, inIts, outIts, bandWidth) ==
    IF b > 4
    THEN image
    ELSE CopyBands(b + 1, CopyBand(image, seed, inIts[b], outIts[b], bandWidth),
                   seed, inIts, outIts, bandWidth)

XfRow ==
    /\ xfPc = "rows"
    /\ xfRow < BandHeight(current_res_)
    /\ encoded_image' = CopyBands(1, encoded_image, rawSeed, in_it, out_it,
                                  BandWidth(current_res_))
    /\ in_it' = [b \in 1 .. 4 |->
                    AdvanceInput(in_it[b], current_res_.fileWidth,
                                 BandWidth(current_res_))]
    /\ out_it' = [b \in 1 .. 4 |-> AdvanceOutput(out_it[b], BandWidth(current_res_))]
    /\ xfRow' = xfRow + 1
    /\ readHigh' = HighestOf({readHigh} \cup
                       { in_it[b] + BandWidth(current_res_) - 1 : b \in 1 .. 4 })
    /\ writeHigh' = HighestOf({writeHigh} \cup
                       { out_it[b] + BandWidth(current_res_) - 1 : b \in 1 .. 4 })
    /\ writes' = [k \in DOMAIN writes |->
                     writes[k] + Cardinality({ b \in 1 .. 4 :
                         out_it[b] < k /\ k <= out_it[b] + BandWidth(current_res_) })]
    /\ UNCHANGED << resolution_key, current_res_, rawSeed, xfPc, encoded_buffer,
                    buffer_len >>
    /\ XfOnly

\* Lines 248-249: the copy into encoded_buffer and buffer_len.
XfEnd ==
    /\ xfPc = "rows"
    /\ xfRow >= BandHeight(current_res_)
    /\ encoded_buffer' = encoded_image
    /\ buffer_len' = current_res_.imageWidth * current_res_.imageHeight * 2
    /\ xfPc' = "done"
    /\ UNCHANGED << resolution_key, current_res_, rawSeed, xfRow, in_it, out_it,
                    encoded_image, readHigh, writeHigh, writes >>
    /\ XfOnly

TransformInit == PipeParked /\ XfInit /\ CapParked /\ MsgParked /\ LockParked

TransformNext == XfBegin \/ XfRow \/ XfEnd

TransformSpec == TransformInit /\ [][TransformNext]_vars

(***************************************************************************)
(* Claims about the transform.                                             *)
(***************************************************************************)
\* Raw origin (column, row) of band b.
OriginCol(b, res) == IF b \in { 2, 4 } THEN BandWidth(res) ELSE 0
OriginRow(b, res) == IF b \in { 3, 4 } THEN BandHeight(res) ELSE 0

\* C3 Geometry correctness: the result holds imageWidth*imageHeight samples
\* (buffer_len is twice that, in bytes) and sample (r, c) of output block b
\* is the raw sample at row originRow_b + r, column originCol_b + c, with
\* fileWidth as the raw row stride.
C3_Geometry ==
    xfPc = "done" =>
        LET res == current_res_
            bw  == BandWidth(res)
            bh  == BandHeight(res)
        IN  /\ Len(encoded_buffer) = res.imageWidth * res.imageHeight
            /\ buffer_len = res.imageWidth * res.imageHeight * 2
            /\ \A b \in 1 .. 4 : \A r \in 0 .. (bh - 1) : \A c \in 0 .. (bw - 1) :
                 encoded_buffer[(b - 1) * bw * bh + r * bw + c + 1]
                   = RawAt(rawSeed, (OriginRow(b, res) + r) * res.fileWidth
                                     + OriginCol(b, res) + c)

\* C3 witness: a finished transform of a frame with padding columns and
\* bands of at least two rows and two columns.
C3_Witness ==
    /\ xfPc = "done"
    /\ current_res_.imageWidth < current_res_.fileWidth
    /\ BandWidth(current_res_) >= 2
    /\ BandHeight(current_res_) >= 2

\* The last offset the row loop reads (band 4, last row, last column) and
\* the last offset it writes, from where the iterators start and how far
\* each row moves them.
LastRead(res) ==
    InputBandStart(res)[4] + (BandHeight(res) - 1) * res.fileWidth
        + BandWidth(res) - 1

LastWrite(res) ==
    OutputBandStart(res)[4] + (BandHeight(res) - 1) * BandWidth(res)
        + BandWidth(res) - 1

EvenSized(res) == res.imageWidth % 2 = 0 /\ res.imageHeight % 2 = 0

\* C24 Transform bounds: every offset read is below fileWidth*fileHeight and
\* every offset written below imageWidth*imageHeight, and no output sample
\* is written twice; when the transform is done the highest offsets read
\* and written are LastRead and LastWrite, and with imageWidth and
\* imageHeight even every output sample has been written exactly once.
\* For the two entries of resolution_map_ the same limits hold of LastRead
\* and LastWrite, and the four bands fill the image.
C24_TransformBounds ==
    /\ readHigh < current_res_.fileWidth * current_res_.fileHeight
    /\ writeHigh < current_res_.imageWidth * current_res_.imageHeight
    /\ \A k \in DOMAIN writes : writes[k] <= 1
    /\ xfPc = "done" =>
          /\ readHigh = LastRead(current_res_)
          /\ writeHigh = LastWrite(current_res_)
          /\ EvenSized(current_res_) => \A k \in DOMAIN writes : writes[k] = 1
    /\ \A key \in DOMAIN resolution_map_ :
          LET res == resolution_map_[key]
          IN  /\ res.imageWidth <= res.fileWidth
              /\ res.imageHeight <= res.fileHeight
              /\ LastRead(res) < res.fileWidth * res.fileHeight
              /\ LastWrite(res) < res.imageWidth * res.imageHeight
              /\ EvenSized(res) =>
                    LastWrite(res) + 1 = res.imageWidth * res.imageHeight

\* C24 witness: a finished transform of an even-sized image that is
\* narrower and lower than its raw buffer, every output sample written.
C24_Witness ==
    /\ xfPc = "done"
    /\ EvenSized(current_res_)
    /\ current_res_.imageWidth < current_res_.fileWidth
    /\ current_res_.imageHeight < current_res_.fileHeight
    /\ BandHeight(current_res_) >= 2
    /\ Len(writes) = current_res_.imageWidth * current_res_.imageHeight
    /\ readHigh >= 0

(***************************************************************************)
(* The capture threads: main starts capturing_control on a thread of its   *)
(* own and runs event_loop itself.                                         *)
(*                                                                         *)
(* A thread blocked in condition_variable::wait is at a "..._blocked"      *)
(* position; notify_one moves it to the position where it re-acquires the  *)
(* mutex and evaluates its predicate again.  A notification that finds no  *)
(* blocked thread is lost.                                                 *)
(***************************************************************************)
\* main, lines 122-128: next, start and keep_capturing are declared without
\* an initial value, and capturing_control's counter is initialised from
\* itself (line 34).  Each starts with whatever value the build leaves there.
CapInit ==
    /\ start \in BOOLEAN
    /\ next \in BOOLEAN
    /\ keep_capturing \in BOOLEAN
    /\ ctl_i \in (LoopEnd + 1 - MaxBursts) .. (LoopEnd + 1)
    /\ start_mtx = "free"
    /\ shutter = 0
    /\ timeoutSet \in BOOLEAN
    /\ ctlPc = "loop"
    /\ loopPc = "while"
    /\ first = TRUE
    /\ frames = 0
    /\ restarts = 0
    /\ expired = FALSE
    /\ openCount = 0
    /\ configCount = 0
    /\ encoderOn = FALSE
    /\ cameraOn = FALSE
    /\ bursts = 0
    /\ armed = FALSE

\* start_cv.notify_one() : event_loop is the only thread that waits on it
NotifyStart(pc) == IF pc = "gate_blocked" THEN "gate_lock" ELSE pc

\* Mutant of NotifyNext: the notification is not sent.
NotifyNext_Mut(pc) == pc

\* nxt_cv.notify_one() : capturing_control is the only thread that waits on it
NotifyNext(pc) == IF pc = "next_blocked" THEN "next_check" ELSE pc

(***************************************************************************)
(* capturing_control                                                       *)
(***************************************************************************)
\* for (...; i <= 5; ...)
CtlLoopTest ==
    /\ ctlPc = "loop"
    /\ ctlPc' = IF ctl_i <= LoopEnd THEN "signal" ELSE "fin"
    /\ UNCHANGED << start, next, keep_capturing, start_mtx, shutter, timeoutSet,
                    ctl_i, loopPc, first, frames, restarts, expired,
                    openCount, configCount, encoderOn, cameraOn, bursts, armed >>
    /\ CapOnly

\* unsigned int current_exposure = base_exposure*i, set as "<n>us"
CurrentExposure(i) == base_exposure * i

\* Lines 36-42: under start_mtx, the shutter is set and start raised.
CtlSignal ==
    /\ ctlPc = "signal"
    /\ start_mtx = "free"
    /\ shutter' = CurrentExposure(ctl_i)
    /\ start' = TRUE
    /\ armed' = TRUE
    /\ ctlPc' = "notify_start"
    /\ UNCHANGED << next, keep_capturing, start_mtx, timeoutSet, ctl_i, loopPc,
                    first, frames, restarts, expired, openCount, configCount,
                    encoderOn, cameraOn, bursts >>
    /\ CapOnly

\* Line 43: start_cv.notify_one()
CtlNotifyStart ==
    /\ ctlPc = "notify_start"
    /\ loopPc' = NotifyStart(loopPc)
    /\ ctlPc' = "next_check"
    /\ UNCHANGED << start, next, keep_capturing, start_mtx, shutter, timeoutSet,
                    ctl_i, first, frames, restarts, expired, openCount,
                    configCount, encoderOn, cameraOn, bursts, armed >>
    /\ CapOnly

\* Lines 44-48 and ++i: under nxt_mtx, nxt_cv.wait(lock, [&next]{return next;})
\* either blocks or goes on with next = false.
CtlWaitNext ==
    /\ ctlPc = "next_check"
    /\ IF next
       THEN /\ next' = FALSE
            /\ ctl_i' = ctl_i + 1
            /\ ctlPc' = "loop"
       ELSE /\ ctlPc' = "next_blocked"
            /\ UNCHANGED << next, ctl_i >>
    /\ UNCHANGED << start, keep_capturing, start_mtx, shutter, timeoutSet,
                    loopPc, first, frames, restarts, expired, openCount,
                    configCount, encoderOn, cameraOn, bursts, armed >>
    /\ CapOnly

\* Line 50: keep_capturing = false (no mutex held)
CtlFin ==
    /\ ctlPc = "fin"
    /\ keep_capturing' = FALSE
    /\ ctlPc' = "fin_notify"
    /\ UNCHANGED << start, next, start_mtx, shutter, timeoutSet, ctl_i, loopPc,
                    first, frames, restarts, expired, openCount, configCount,
                    encoderOn, cameraOn, bursts, armed >>
    /\ CapOnly

\* Line 51: start_cv.notify_one()
CtlFinNotify ==
    /\ ctlPc = "fin_notify"
    /\ loopPc' = NotifyStart(loopPc)
    /\ ctlPc' = "done"
    /\ UNCHANGED << start, next, keep_capturing, start_mtx, shutter, timeoutSet,
                    ctl_i, first, frames, restarts, expired, openCount,
                    configCount, encoderOn, cameraOn, bursts, armed >>
    /\ CapOnly

(***************************************************************************)
(* event_loop                                                              *)
(***************************************************************************)
\* Line 59: while(keep_capturing)
LoopWhile ==
    /\ loopPc = "while"
    /\ loopPc' = IF keep_capturing THEN "gate_lock" ELSE "returned"
    /\ UNCHANGED << start, next, keep_capturing, start_mtx, shutter, timeoutSet,
                    ctlPc, ctl_i, first, frames, restarts, expired, openCount,
                    configCount, encoderOn, cameraOn, bursts, armed >>
    /\ CapOnly

\* The predicate of line 62: start | !keep_capturing
GateOpen(s, k) == s \/ ~k

\* Lines 61-63: with start_mtx acquired the predicate is evaluated; when it
\* holds, start is cleared and the mutex released; when it does not, the
\* thread is about to block, the mutex still held.
LoopGateCheck ==
    /\ loopPc = "gate_lock"
    /\ start_mtx = "free"
    /\ IF GateOpen(start, keep_capturing)
       THEN /\ start' = FALSE
            /\ loopPc' = "gate_passed"
            /\ UNCHANGED start_mtx
       ELSE /\ start_mtx' = "loop"
            /\ loopPc' = "gate_preblock"
            /\ UNCHANGED start
    /\ UNCHANGED << next, keep_capturing, shutter, timeoutSet, ctlPc, ctl_i,
                    first, frames, restarts, expired, openCount, configCount,
                    encoderOn, cameraOn, bursts, armed >>
    /\ CapOnly

\* condition_variable::wait releases the mutex and blocks, atomically.
LoopGateBlock ==
    /\ loopPc = "gate_preblock"
    /\ start_mtx' = "free"
    /\ loopPc' = "gate_blocked"
    /\ UNCHANGED << start, next, keep_capturing, shutter, timeoutSet, ctlPc,
                    ctl_i, first, frames, restarts, expired, openCount,
                    configCount, encoderOn, cameraOn, bursts, armed >>
    /\ CapOnly

\* condition_variable::wait may return without a notification; the predicate
\* loop then evaluates the predicate again.  Nothing guarantees that it does.
LoopSpuriousWake ==
    /\ loopPc = "gate_blocked"
    /\ loopPc' = "gate_lock"
    /\ UNCHANGED << start, next, keep_capturing, start_mtx, shutter, timeoutSet,
                    ctlPc, ctl_i, first, frames, restarts, expired, openCount,
                    configCount, encoderOn, cameraOn, bursts, armed >>
    /\ CapOnly

\* Line 65: if (!keep_capturing) return;
LoopGatePassed ==
    /\ loopPc = "gate_passed"
    /\ loopPc' = IF keep_capturing THEN "open" ELSE "returned"
    /\ UNCHANGED << start, next, keep_capturing, start_mtx, shutter, timeoutSet,
                    ctlPc, ctl_i, first, frames, restarts, expired, openCount,
                    configCount, encoderOn, cameraOn, bursts, armed >>
    /\ CapOnly

\* Mutant of FirstAfterOpen: the flag is left set.
FirstAfterOpen_Mut == TRUE

\* Line 70: first = false;
FirstAfterOpen == FALSE

\* Lines 67-71: if (first) { OpenCamera(); ConfigureVideo(...); first = false; }
LoopOpen ==
    /\ loopPc = "open"
    /\ IF first
       THEN /\ openCount' = openCount + 1
            /\ configCount' = configCount + 1
            /\ first' = FirstAfterOpen
       ELSE UNCHANGED << openCount, configCount, first >>
    /\ loopPc' = "start"
    /\ UNCHANGED << start, next, keep_capturing, start_mtx, shutter, timeoutSet,
                    ctlPc, ctl_i, frames, restarts, expired, encoderOn,
                    cameraOn, bursts, armed >>
    /\ CapOnly

\* Lines 72-77: the output, the callbacks, StartEncoder, StartCamera, start_time
LoopStart ==
    /\ loopPc = "start"
    /\ encoderOn' = TRUE
    /\ cameraOn' = TRUE
    /\ bursts' = bursts + 1
    /\ frames' = 0
    /\ restarts' = 0
    /\ expired' = FALSE
    /\ loopPc' = "frames"
    /\ UNCHANGED << start, next, keep_capturing, start_mtx, shutter, timeoutSet,
                    ctlPc, ctl_i, first, openCount, configCount, armed >>
    /\ CapOnly

\* The clock passes start_time + options->timeout.value (only a non-zero
\* timeout can be exceeded).
DeadlinePasses ==
    /\ loopPc = "frames"
    /\ timeoutSet
    /\ ~expired
    /\ expired' = TRUE
    /\ UNCHANGED << start, next, keep_capturing, start_mtx, shutter, timeoutSet,
                    ctlPc, ctl_i, loopPc, first, frames, restarts, openCount,
                    configCount, encoderOn, cameraOn, bursts, armed >>
    /\ CapOnly

\* Mutant of LoopDeviceTimeout: the encoder is stopped with the camera.
LoopDeviceTimeout_Mut ==
    /\ loopPc = "frames"
    /\ restarts < MaxRestarts
    /\ restarts' = restarts + 1
    /\ cameraOn' = TRUE
    /\ encoderOn' = FALSE
    /\ UNCHANGED << start, next, keep_capturing, start_mtx, shutter, timeoutSet,
                    ctlPc, ctl_i, loopPc, first, frames, expired, openCount,
                    configCount, bursts, armed >>
    /\ CapOnly

\* Lines 80-88: app.Wait() returns Timeout: StopCamera, StartCamera, continue
LoopDeviceTimeout ==
    /\ loopPc = "frames"
    /\ restarts < MaxRestarts
    /\ restarts' = restarts + 1
    /\ cameraOn' = TRUE
    /\ UNCHANGED << start, next, keep_capturing, start_mtx, shutter, timeoutSet,
                    ctlPc, ctl_i, loopPc, first, frames, expired, openCount,
                    configCount, encoderOn, bursts, armed >>
    /\ CapOnly

\* Lines 89-107: app.Wait() returns RequestComplete before the deadline:
\* the frame goes to EncodeBuffer.
LoopFrame ==
    /\ loopPc = "frames"
    /\ ~(timeoutSet /\ expired)
    /\ frames < MaxBurstFrames
    /\ frames' = frames + 1
    /\ UNCHANGED << start, next, keep_capturing, start_mtx, shutter, timeoutSet,
                    ctlPc, ctl_i, loopPc, first, restarts, expired, openCount,
                    configCount, encoderOn, cameraOn, bursts, armed >>
    /\ CapOnly

\* Mutant of LoopDeadline: the loop also lowers keep_capturing at the deadline.
LoopDeadline_Mut ==
    /\ loopPc = "frames"
    /\ timeoutSet /\ expired
    /\ cameraOn' = FALSE
    /\ encoderOn' = FALSE
    /\ armed' = FALSE
    /\ keep_capturing' = FALSE
    /\ loopPc' = "sleep"
    /\ UNCHANGED << start, next, start_mtx, shutter, timeoutSet,
                    ctlPc, ctl_i, first, frames, restarts, expired, openCount,
                    configCount, bursts >>
    /\ CapOnly

\* Lines 100-105: app.Wait() returns RequestComplete after the deadline:
\* StopCamera, StopEncoder, break
LoopDeadline ==
    /\ loopPc = "frames"
    /\ timeoutSet /\ expired
    /\ cameraOn' = FALSE
    /\ encoderOn' = FALSE
    /\ armed' = FALSE
    /\ loopPc' = "sleep"
    /\ UNCHANGED << start, next, keep_capturing, start_mtx, shutter, timeoutSet,
                    ctlPc, ctl_i, first, frames, restarts, expired, openCount,
                    configCount, bursts >>
    /\ CapOnly

\* Lines 109-113: after the 2000ms sleep, next = true under nxt_mtx
LoopSetNext ==
    /\ loopPc = "sleep"
    /\ next' = TRUE
    /\ loopPc' = "notify_next"
    /\ UNCHANGED << start, keep_capturing, start_mtx, shutter, timeoutSet,
                    ctlPc, ctl_i, first, frames, restarts, expired, openCount,
                    configCount, encoderOn, cameraOn, bursts, armed >>
    /\ CapOnly

\* Line 114: nxt_cv.notify_one()
LoopNotifyNext ==
    /\ loopPc = "notify_next"
    /\ ctlPc' = NotifyNext(ctlPc)
    /\ loopPc' = "while"
    /\ UNCHANGED << start, next, keep_capturing, start_mtx, shutter, timeoutSet,
                    ctl_i, first, frames, restarts, expired, openCount,
                    configCount, encoderOn, cameraOn, bursts, armed >>
    /\ CapOnly

CaptureInit == PipeParked /\ XfParked /\ CapInit /\ MsgParked /\ LockParked

ControlStep ==
    CtlLoopTest \/ CtlSignal \/ CtlNotifyStart \/ CtlWaitNext \/ CtlFin \/ CtlFinNotify

LoopStep ==
    \/ LoopWhile \/ LoopGateCheck \/ LoopGateBlock \/ LoopSpuriousWake
    \/ LoopGatePassed \/ LoopOpen \/ LoopStart
    \/ LoopDeviceTimeout \/ LoopFrame \/ LoopDeadline
    \/ LoopSetNext \/ LoopNotifyNext

CaptureNext == ControlStep \/ LoopStep \/ DeadlinePasses

CaptureSpec == CaptureInit /\ [][CaptureNext]_vars

(***************************************************************************)
(* Fair scheduling of the two capture threads.  Both are OS threads that   *)
(* keep running, so each takes its next program step when it can.  The     *)
(* camera is not obliged to time out or to deliver a frame before the      *)
(* deadline; it is assumed to complete a request again after the deadline  *)
(* (the check of line 100 is reached from a RequestComplete only).  A      *)
(* wait on start_cv is never assumed to return without a notification.     *)
(***************************************************************************)
LoopProgramStep ==
    \/ LoopWhile \/ LoopGateCheck \/ LoopGateBlock \/ LoopGatePassed
    \/ LoopOpen \/ LoopStart \/ LoopSetNext \/ LoopNotifyNext

FairCaptureSpec ==
    /\ CaptureInit
    /\ [][CaptureNext]_vars
    /\ WF_vars(ControlStep)
    /\ WF_vars(LoopProgramStep)
    /\ WF_vars(LoopDeadline)

(***************************************************************************)
(* Claims about the capture threads.                                       *)
(***************************************************************************)
\* C4 Exposure gating: the pending exposure (options->shutter) does not
\* change while a burst is in progress, that is between StartEncoder and
\* StopEncoder.
C4_ExposureGated == [][encoderOn => shutter' = shutter]_vars

\* C5 Gate invariant: the capture loop starts a burst (StartEncoder,
\* StartCamera) only if the controller has raised start since the previous
\* burst ended, whatever next, start and keep_capturing held at first.
C5_GateInvariant == [][(~encoderOn /\ encoderOn') => armed]_vars

\* C6 Shutdown wake-up: the capture loop is never left blocked on start_cv
\* once the controller has set keep_capturing = false, sent its last
\* notification and returned (nothing is left that would notify it).
C6_NoMissedSignal == ~(ctlPc = "done" /\ loopPc = "gate_blocked")

\* C7 The camera is opened and the raw stream configured at most once, both
\* on the first activation: they have been called exactly once whenever a
\* burst has been started or the camera streams, and the flag first is set
\* exactly as long as they have not been called.
C7_OpenOnce ==
    /\ openCount <= 1
    /\ configCount = openCount
    /\ first = (openCount = 0)
    /\ (bursts >= 1 \/ cameraOn \/ encoderOn \/ loopPc = "start") => openCount = 1

\* C7 witness: a second burst has been started, the camera opened once.
C7_Witness == bursts >= 2 /\ cameraOn /\ openCount = 1 /\ configCount = 1

C14_TerminalShutdown ==
    [][(ctlPc \in {"fin_notify", "done"}) =>
          /\ shutter' = shutter
          /\ (start' => start)
          /\ bursts' = bursts
          /\ restarts' = restarts
          /\ frames' = frames]_vars

\* C16 Device timeout: the step that handles a Timeout event (StopCamera,
\* StartCamera) happens inside a burst and leaves the camera streaming, the
\* encoder running, the burst and its count of submitted frames as they
\* were, the loop in its frame loop, and the encode pipeline untouched.
C16_DeviceTimeout ==
    [][(restarts' = restarts + 1) =>
          /\ loopPc = "frames" /\ loopPc' = "frames"
          /\ cameraOn /\ cameraOn'
          /\ encoderOn /\ encoderOn'
          /\ frames' = frames
          /\ bursts' = bursts
          /\ UNCHANGED << openCount, configCount >>
          /\ UNCHANGED pipeVars]_vars

\* C16 witness: a device timeout was handled in a burst that has submitted
\* a frame, and the burst goes on.
C16_Witness ==
    /\ restarts = 1
    /\ frames >= 1
    /\ loopPc = "frames"
    /\ encoderOn /\ cameraOn

\* C17 Deadline ends the burst: a burst is ended only by the deadline, with
\* the camera and the encoder stopped and the frame loop left; once the
\* deadline of a burst has passed the burst does end; after the end of a
\* burst the loop gets back to its wait on the gate or returns; and a
\* controller that waits on nxt_cv for the end of that burst goes on.
C17_DeadlineEndsBurst ==
    /\ [][(encoderOn /\ ~encoderOn') =>
             (timeoutSet /\ expired /\ ~cameraOn' /\ loopPc' = "sleep")]_vars
    /\ (loopPc = "frames" /\ timeoutSet /\ expired)
           ~> (loopPc = "sleep" /\ ~cameraOn /\ ~encoderOn)
    /\ (loopPc = "sleep") ~> (loopPc \in {"gate_lock", "returned"})
    /\ (loopPc = "sleep" /\ ctlPc \in {"next_check", "next_blocked"})
           ~> (ctlPc \notin {"next_check", "next_blocked"})

\* C17 witness: the deadline has ended a burst, the loop is back at the gate
\* and the controller has gone on from its wait for the end of the burst.
C17_Witness ==
    /\ bursts >= 1
    /\ timeoutSet /\ expired
    /\ ~encoderOn /\ ~cameraOn
    /\ loopPc = "gate_lock"
    /\ ctlPc = "loop"
    /\ ~next

\* C22 Bursts never overlap: capturing_control sets the shutter and raises
\* start (lines 36-42) only when no burst is pending or running, that is
\* with the camera and the encoder stopped and the capture loop outside
\* lines 67-109; StartEncoder is called only with the encoder stopped and
\* StopEncoder only with it running; and a frame is given to EncodeBuffer
\* only while the encoder runs.
C22_NoOverlap ==
    /\ [][(ctlPc = "signal" /\ ctlPc' = "notify_start") =>
             /\ ~encoderOn /\ ~cameraOn
             /\ loopPc \notin {"open", "start", "frames", "sleep"}]_vars
    /\ [][(bursts' # bursts) => (~encoderOn /\ encoderOn')]_vars
    /\ [][(loopPc = "frames" /\ loopPc' = "sleep") =>
             (encoderOn /\ ~encoderOn')]_vars
    /\ [][(frames' = frames + 1) => (encoderOn /\ encoderOn')]_vars

(***************************************************************************)
(* The message-driven CaptureController and the CaptureLoop it gates       *)
(* (spec.md 4.5 and 4.6).  capturing_control drives the gate from a fixed *)
(* loop; the launcher starts arducam-raw with --message-ip, and the        *)
(* handling of START, STOP, EXPOSURE and CLOSE is taken from spec.md.      *)
(***************************************************************************)
\* Messages handled in one run.
MaxMessages == 4

ExposureValues == {1000, 2000}

MsgInit ==
    /\ gate_active = FALSE
    /\ shutdown = FALSE
    /\ pending_exposure = 0
    /\ msgLog = << >>
    /\ mcPc = "run"
    /\ mlPc = "wait"
    /\ mFirst = TRUE
    /\ mOpenCount = 0
    /\ mCameraOn = FALSE
    /\ mBursts = 0
    /\ activations = 0

\* The controller takes the next message off the queue.
Dequeue(key) ==
    /\ mcPc = "run"
    /\ Len(msgLog) < MaxMessages
    /\ msgLog' = Append(msgLog, [key |-> key, active |-> gate_active])

\* START: set gate active (re-asserting active is a no-op)
GateAfterStart(active) == TRUE

\* Mutant of GateAfterStop: STOP toggles the gate.
GateAfterStop_Mut(active) == ~active

\* STOP: set gate inactive
GateAfterStop(active) == FALSE

MsgStart ==
    /\ Dequeue("START")
    /\ gate_active' = GateAfterStart(gate_active)
    /\ activations' = IF gate_active' /\ ~gate_active
                      THEN activations + 1 ELSE activations
    /\ UNCHANGED << shutdown, pending_exposure, mcPc, mlPc, mFirst, mOpenCount,
                    mCameraOn, mBursts >>
    /\ MsgOnly

MsgStop ==
    /\ Dequeue("STOP")
    /\ gate_active' = GateAfterStop(gate_active)
    /\ activations' = IF gate_active' /\ ~gate_active
                      THEN activations + 1 ELSE activations
    /\ UNCHANGED << shutdown, pending_exposure, mcPc, mlPc, mFirst, mOpenCount,
                    mCameraOn, mBursts >>
    /\ MsgOnly

\* EXPOSURE(value): accepted only while the gate is inactive
MsgExposure ==
    /\ Dequeue("EXPOSURE")
    /\ \E v \in ExposureValues :
          pending_exposure' = IF gate_active THEN pending_exposure ELSE v
    /\ UNCHANGED << gate_active, shutdown, mcPc, mlPc, mFirst, mOpenCount,
                    mCameraOn, mBursts, activations >>
    /\ MsgOnly

\* CLOSE: gate inactive, shutdown flag set; no message is processed afterwards
MsgClose ==
    /\ Dequeue("CLOSE")
    /\ gate_active' = FALSE
    /\ shutdown' = TRUE
    /\ mcPc' = "closed"
    /\ UNCHANGED << pending_exposure, mlPc, mFirst, mOpenCount, mCameraOn,
                    mBursts, activations >>
    /\ MsgOnly

\* The capture loop waits on the gate; on the first activation only it opens
\* the camera; on each activation it starts the camera streaming.
MsgLoopActivate ==
    /\ mlPc = "wait"
    /\ shutdown \/ gate_active
    /\ IF shutdown
       THEN /\ mlPc' = "returned"
            /\ UNCHANGED << mFirst, mOpenCount, mCameraOn, mBursts >>
       ELSE /\ mOpenCount' = IF mFirst THEN mOpenCount + 1 ELSE mOpenCount
            /\ mFirst' = FALSE
            /\ mCameraOn' = TRUE
            /\ mBursts' = mBursts + 1
            /\ mlPc' = "burst"
    /\ UNCHANGED << gate_active, shutdown, pending_exposure, msgLog, mcPc,
                    activations >>
    /\ MsgOnly

\* The burst ends when the gate is found inactive: the loop goes back to
\* wait on the gate after STOP, and returns after CLOSE.
MsgLoopBurstEnd ==
    /\ mlPc = "burst"
    /\ ~gate_active
    /\ mCameraOn' = FALSE
    /\ mlPc' = IF shutdown THEN "returned" ELSE "wait"
    /\ UNCHANGED << gate_active, shutdown, pending_exposure, msgLog, mcPc,
                    mFirst, mOpenCount, mBursts, activations >>
    /\ MsgOnly

MsgSpecInit == PipeParked /\ XfParked /\ CapParked /\ MsgInit /\ LockParked

MsgNext ==
    \/ MsgStart \/ MsgStop \/ MsgExposure \/ MsgClose
    \/ MsgLoopActivate \/ MsgLoopBurstEnd

MsgSpec == MsgSpecInit /\ [][MsgNext]_vars

====
